---------------------------- MODULE Spec2Model ----------------------------
(***************************************************************************)
(* A model of src/part3.py: the data augmentation functions (rand_del,     *)
(* rand_swap, aug_sentence), the tokenizer they are re-read through, and   *)
(* main(): dataset preparation, the training loop, the checkpoint writes   *)
(* and the evaluation loop.                                                *)
(*                                                                         *)
(* Strings are sequences of one-character strings, so that " ".join and    *)
(* str.split are computed rather than assumed.  Real numbers are modelled  *)
(* in tenths (0.3 is 3, 0.2 * L is 2 * L tenths).                          *)
(***************************************************************************)
EXTENDS Integers, Sequences, FiniteSets, Bags, TLC

VARIABLES
    call,           \* the augmentation function applied and its arguments
    ret,            \* the string rand_del / rand_swap returned
    augmented       \* the list aug_sentence returned

VARIABLES
    pc,             \* main(): the statement to execute next
    train_examples, \* train.examples
    dev_examples,   \* dev.examples
    aug_examples,   \* aug_examples
    k,              \* how many of train.examples the augmentation loop has visited
    label_stoi,     \* labelField.vocab.stoi
    epoch,          \* epoch
    pending,        \* the batches the loader being iterated has still to yield
    batch,          \* the current batch: positions in the loader's dataset
    labels,         \* labels
    grads,          \* the accumulated gradients: "none", "zero" or "computed"
    target,         \* the labels the last criterion(output, labels) was given
    net_training,   \* net.training, the mode flag of the Network module
    grad_enabled,   \* whether autograd records operations (torch.no_grad clears it)
    fwd_mode,       \* the mode the last forward pass of net ran in
    params,         \* the parameters of net, as the number of updates applied to them
    writes,         \* the writes of ./model.pth, in order: the state written
    num_correct,    \* num_correct
    eval_log,       \* the examples the evaluation loop has scored, with their logits
    accuracy,       \* accuracy, as the fraction num / den
    steps,          \* the trainer steps done on the current batch, in order
    count           \* how often each trainer step has run in all

augvars == <<call, ret, augmented>>

mainvars == <<pc, train_examples, dev_examples, aug_examples, k, label_stoi, epoch,
              pending, batch, labels, grads, target, net_training, grad_enabled,
              fwd_mode, params, writes, num_correct, eval_log, accuracy, steps, count>>

vars == <<augvars, mainvars>>

---------------------------------------------------------------------------
(* Bounds of the model *)

\* longest token sequence over Vocab handed to rand_del / rand_swap / aug_sentence
MaxLen == 3
\* largest number of swap attempts handed to rand_swap directly
MaxN == 2
\* longest token sequence over Vocab handed to aug_sentence
MaxAugLen == 2
\* longest sequence of one repeated token handed to aug_sentence
MaxLongLen == 10
\* number of examples of the dev split
NumDev == 3
\* batch_size of the two loaders (64 in the source, scaled down)
batch_size == 2

---------------------------------------------------------------------------
(* Strings *)

SPACE == " "
\* characters for which str.isalnum() is true
Alnum == {"a", "b", "r"}

\* the tokens the texts are made of (what tokenizer() produces: non-empty, alphanumeric)
Vocab == {<<"a">>, <<"b">>}

Range(s) == {s[i] : i \in 1..Len(s)}

Max(a, b) == IF a >= b THEN a ELSE b

\* sep.join(list) with sep = " "
RECURSIVE Join(_)
Join(list) ==
    IF Len(list) = 0 THEN <<>>
    ELSE IF Len(list) = 1 THEN list[1]
    ELSE list[1] \o <<SPACE>> \o Join(Tail(list))

\* str.split(): maximal runs of non-whitespace characters
RECURSIVE SplitFrom(_, _, _)
SplitFrom(str, i, cur) ==
    IF i > Len(str) THEN (IF cur = <<>> THEN <<>> ELSE <<cur>>)
    ELSE IF str[i] = SPACE
         THEN (IF cur = <<>> THEN <<>> ELSE <<cur>>) \o SplitFrom(str, i + 1, <<>>)
         ELSE SplitFrom(str, i + 1, Append(cur, str[i]))

Split(str) == SplitFrom(str, 1, <<>>)

\* the literal "<br />"
BR == <<"<", "b", "r", " ", "/", ">">>

\* text.replace('<br />', ' ')
RECURSIVE ReplaceBr(_)
ReplaceBr(str) ==
    IF Len(str) = 0 THEN <<>>
    ELSE IF Len(str) >= Len(BR) /\ SubSeq(str, 1, Len(BR)) = BR
         THEN <<SPACE>> \o ReplaceBr(SubSeq(str, Len(BR) + 1, Len(str)))
         ELSE <<str[1]>> \o ReplaceBr(Tail(str))

\* PreProcessing.tokenizer
tokenizer(text) ==
    LET string == ReplaceBr(text)
        clean  == [i \in 1..Len(string) |->
                      IF string[i] \in Alnum THEN string[i] ELSE SPACE]
    IN  Split(clean)

\* the multiset of the elements of a sequence
RECURSIVE BagOf(_)
BagOf(s) == IF Len(s) = 0 THEN EmptyBag ELSE SetToBag({s[1]}) (+) BagOf(Tail(s))

---------------------------------------------------------------------------
(* Random draws *)

\* np.random.uniform(0, 1), in tenths: values of [0, 1)
UniformDraws == {0, 3, 6}

\* np.random.randint(0, n): 0 .. n-1
RandInt(n) == 0..(n - 1)

---------------------------------------------------------------------------
(* rand_del *)

\* the lists `result` can hold after the loop over words[1..i]:
\* a word is appended when the draw exceeds prob
RECURSIVE rand_del_loop(_, _, _)
rand_del_loop(words, prob, i) ==
    IF i = 0 THEN {<<>>}
    ELSE {IF u > prob THEN Append(r, words[i]) ELSE r :
              r \in rand_del_loop(words, prob, i - 1), u \in UniformDraws}

\* a plausible slip: the empty result is returned as it is
rand_del_fallback_none(words, result) == {result}

\* lines 70-71: an empty result gets one word of `words`, drawn at random
rand_del_fallback(words, result) ==
    IF Len(result) = 0
    THEN {Append(result, words[r + 1]) : r \in RandInt(Len(words))}
    ELSE {result}

\* the strings rand_del(words, prob) can return
rand_del(words, prob) ==
    LET results ==
            IF Len(words) = 1 THEN {words}
            ELSE UNION {rand_del_fallback(words, r) :
                            r \in rand_del_loop(words, prob, Len(words))}
    IN  {Join(r) : r \in results}

---------------------------------------------------------------------------
(* rand_swap *)

\* a plausible slip: the first position is overwritten and the second is left
swap_overwrite(result, r1, r2) == [result EXCEPT ![r1 + 1] = result[r2 + 1]]

\* result[r1], result[r2] = result[r2], result[r1]   (0-based indices)
swap(result, r1, r2) ==
    [result EXCEPT ![r1 + 1] = result[r2 + 1], ![r2 + 1] = result[r1 + 1]]

\* the inner loop, from candidate j on: the first r2 that differs from r1 is
\* swapped with r1 and the loop is left; r2s are the three draws of r2
RECURSIVE swap_attempt(_, _, _, _)
swap_attempt(result, r1, r2s, j) ==
    IF j > 3 THEN result
    ELSE IF r1 # r2s[j] THEN swap(result, r1, r2s[j])
    ELSE swap_attempt(result, r1, r2s, j + 1)

\* the lists `result` can hold after i iterations of the outer loop
RECURSIVE rand_swap_loop(_, _)
rand_swap_loop(words, i) ==
    IF i = 0 THEN {words}
    ELSE {swap_attempt(r, r1, r2s, 1) :
              r \in rand_swap_loop(words, i - 1),
              r1 \in RandInt(Len(words)),
              r2s \in [1..3 -> RandInt(Len(words))]}

\* the strings rand_swap(words, n) can return
rand_swap(words, n) == {Join(r) : r \in rand_swap_loop(words, n)}

---------------------------------------------------------------------------
(* aug_sentence *)

\* the deletion probability aug_sentence passes, in tenths (0.3)
DelProb == 3

\* a plausible slip: the fraction is rounded to nearest instead of truncated
swap_count_rounded(len) == Max(1, (2 * len + 5) \div 10)

\* max(1, int(0.2 * len(text))): 0.2 * len is 2 * len tenths, int() truncates
swap_count(len) == Max(1, (2 * len) \div 10)

\* data.Example.fromlist([string, label], fields): the text field tokenizes the
\* string, the label field keeps the label; `kind` records which transform
\* the string came from
Example(string, label, kind) ==
    [text |-> tokenizer(string), label |-> label, kind |-> kind]

\* a plausible slip: the swapped example is built with no label
aug_pair_unlabelled(rd, rs, label) ==
    <<Example(rd, label, "rd"), Example(rs, "", "rs")>>

\* lines 93-95: the two examples one iteration appends
aug_pair(rd, rs, label) ==
    <<Example(rd, label, "rd"), Example(rs, label, "rs")>>

\* the lists aug_sentence(text, label) can return: two iterations, each
\* appending one deleted and one swapped example
aug_sentence(text, label) ==
    LET rds == rand_del(text, DelProb)
        rss == rand_swap(text, swap_count(Len(text)))
    IN  {aug_pair(rd1, rs1, label) \o aug_pair(rd2, rs2, label) :
            rd1 \in rds, rs1 \in rss, rd2 \in rds, rs2 \in rss}

---------------------------------------------------------------------------
(* main(): the datasets *)

Labels == {"neg", "pos"}

\* an example of a split as IMDB.splits yields it
Orig(text, label, split) ==
    [text |-> text, label |-> label, kind |-> "orig", from |-> split]

\* an example aug_sentence built, with the split of the example it was built from
Derived(e, split) ==
    [text |-> e.text, label |-> e.label, kind |-> e.kind, from |-> split]

\* the train splits main() is run on: one two-word review, either label
TrainSplits == {<<Orig(<<<<"a">>, <<"b">>>>, l, "train")>> : l \in Labels}

\* the dev splits main() is run on: NumDev one-word reviews, any labels
DevSplits == {[i \in 1..NumDev |-> Orig(<<<<"b">>>>, ls[i], "dev")] :
                 ls \in [1..NumDev -> Labels]}

\* a plausible slip: the dev examples are not folded in
fold_dev_none(train, dev) == train

\* train.examples.extend(dev.examples)
fold_dev(train, dev) == train \o dev

\* how many examples of a list carry a label
LabelCount(examples, l) == Cardinality({i \in 1..Len(examples) : examples[i].label = l})

\* labelField.build_vocab(train, dev): '<unk>' is 0, then the labels by falling
\* frequency over both datasets, ties in alphabetical order
build_label_vocab(train, dev) ==
    LET neg == LabelCount(train, "neg") + LabelCount(dev, "neg")
        pos == LabelCount(train, "pos") + LabelCount(dev, "pos")
    IN  IF neg = 0 THEN [l \in {"pos"} |-> 1]
        ELSE IF pos = 0 THEN [l \in {"neg"} |-> 1]
        ELSE IF pos > neg THEN [l \in Labels |-> IF l = "pos" THEN 1 ELSE 2]
        ELSE [l \in Labels |-> IF l = "neg" THEN 1 ELSE 2]

\* the number of batches a loader yields for n examples
NumBatches(n) == (n + batch_size - 1) \div batch_size

\* the batches a loader yields in one pass over n examples: every position once,
\* batch_size positions to a batch and the rest in the last one.  The train
\* loader shuffles which examples share a batch and the order of the batches;
\* main() reads neither, and the batches are taken here in list order.
Batches(n) ==
    [j \in 1..NumBatches(n) |->
        [i \in 1..(IF j * batch_size <= n THEN batch_size ELSE n - (j - 1) * batch_size)
            |-> (j - 1) * batch_size + i]]

\* batch.label.type(torch.FloatTensor): the label ids of the examples of a batch
batch_label(examples, b) == [i \in 1..Len(b) |-> label_stoi[examples[b[i]].label]]

---------------------------------------------------------------------------
(* main(): the training loop *)

\* the number of epochs
NumEpochs == 10

\* a plausible slip: one epoch too many
epoch_continues_inclusive(e) == e <= NumEpochs

\* for epoch in range(10)
epoch_continues(e) == e < NumEpochs

\* a plausible slip: the labels are left as they are
shift_none(ls) == ls

\* labels -= 1
shift(ls) == [i \in 1..Len(ls) |-> ls[i] - 1]

\* a plausible slip: the file is not written
torch_save_none(file_writes, state_dict) == file_writes

\* torch.save(state_dict, "./model.pth")
torch_save(file_writes, state_dict) == Append(file_writes, state_dict)

\* the logits the network can give for one example
Logits == {-1, 0, 1}

\* torch.sigmoid, in hundredths
sigmoid(x) == IF x < 0 THEN 27 ELSE IF x = 0 THEN 50 ELSE 73

\* torch.round of a value in hundredths: to the nearest integer, halves to even
round(h) ==
    LET q == h \div 100
        r == h % 100
    IN  IF r < 50 THEN q
        ELSE IF r > 50 THEN q + 1
        ELSE IF q % 2 = 0 THEN q ELSE q + 1

\* a plausible slip: every example of the batch is counted
sum_equal_all(ls, predicted) == Len(ls)

\* torch.sum(labels == predicted).item()
sum_equal(ls, predicted) == Cardinality({i \in 1..Len(ls) : ls[i] = predicted[i]})

NoCount == [zero_grad |-> 0, forward |-> 0, loss |-> 0, backward |-> 0, step |-> 0]

Did(step) ==
    /\ steps' = Append(steps, step)
    /\ count' = [count EXCEPT ![step] = @ + 1]

InitMain ==
    /\ pc = "extend"
    /\ train_examples \in TrainSplits
    /\ dev_examples \in DevSplits
    /\ aug_examples = <<>>
    /\ k = 0
    /\ label_stoi = <<>>
    /\ epoch = 0
    /\ pending = <<>>
    /\ batch = <<>>
    /\ labels = <<>>
    /\ grads = "none"
    /\ target = <<>>
    /\ net_training = FALSE
    /\ grad_enabled = TRUE
    /\ fwd_mode = [grad |-> FALSE, dropout |-> FALSE]
    /\ params = 0
    /\ writes = <<>>
    /\ num_correct = 0
    /\ eval_log = <<>>
    /\ accuracy = [num |-> 0, den |-> 1]
    /\ steps = <<>>
    /\ count = NoCount

\* line 121
ExtendDev ==
    /\ pc = "extend"
    /\ train_examples' = fold_dev(train_examples, dev_examples)
    /\ pc' = "augment"
    /\ UNCHANGED <<dev_examples, aug_examples, k, label_stoi, epoch, pending, batch,
                   labels, grads, target, net_training, grad_enabled, fwd_mode, params,
                   writes, num_correct, eval_log, accuracy, steps, count>>
    /\ UNCHANGED augvars

\* lines 123-124: one iteration of the loop over train.examples
AugStep ==
    /\ pc = "augment"
    /\ k < Len(train_examples)
    /\ LET i == train_examples[k + 1]
       IN  \E new \in aug_sentence(i.text, i.label) :
               aug_examples' = aug_examples \o
                                  [j \in 1..Len(new) |-> Derived(new[j], i.from)]
    /\ k' = k + 1
    /\ UNCHANGED <<pc, train_examples, dev_examples, label_stoi, epoch, pending, batch,
                   labels, grads, target, net_training, grad_enabled, fwd_mode, params,
                   writes, num_correct, eval_log, accuracy, steps, count>>
    /\ UNCHANGED augvars

\* line 125, after the loop
AugExtend ==
    /\ pc = "augment"
    /\ k = Len(train_examples)
    /\ train_examples' = train_examples \o aug_examples
    /\ pc' = "build_vocab"
    /\ UNCHANGED <<dev_examples, aug_examples, k, label_stoi, epoch, pending, batch,
                   labels, grads, target, net_training, grad_enabled, fwd_mode, params,
                   writes, num_correct, eval_log, accuracy, steps, count>>
    /\ UNCHANGED augvars

\* lines 127-135: the vocabularies, the loaders, the network (a new Module is in
\* training mode) and the optimiser
Construct ==
    /\ pc = "build_vocab"
    /\ label_stoi' = build_label_vocab(train_examples, dev_examples)
    /\ net_training' = TRUE
    /\ params' = 0
    /\ epoch' = 0
    /\ pc' = "epoch"
    /\ UNCHANGED <<train_examples, dev_examples, aug_examples, k, pending, batch,
                   labels, grads, target, grad_enabled, fwd_mode,
                   writes, num_correct, eval_log, accuracy, steps, count>>
    /\ UNCHANGED augvars

\* lines 137-140: an epoch starts, the train loader starts a pass
EpochStart ==
    /\ pc = "epoch"
    /\ epoch_continues(epoch)
    /\ pending' = Batches(Len(train_examples))
    /\ pc' = "fetch"
    /\ UNCHANGED <<train_examples, dev_examples, aug_examples, k, label_stoi, epoch,
                   batch, labels, grads, target, net_training, grad_enabled, fwd_mode,
                   params, writes, num_correct, eval_log, accuracy, steps, count>>
    /\ UNCHANGED augvars

\* lines 140-143: the loader yields the next batch
Fetch ==
    /\ pc = "fetch"
    /\ pending # <<>>
    /\ batch' = Head(pending)
    /\ pending' = Tail(pending)
    /\ labels' = batch_label(train_examples, Head(pending))
    /\ steps' = <<>>
    /\ pc' = "shift"
    /\ UNCHANGED <<train_examples, dev_examples, aug_examples, k, label_stoi, epoch,
                   grads, target, net_training, grad_enabled, fwd_mode,
                   params, writes, num_correct, eval_log, accuracy, count>>
    /\ UNCHANGED augvars

\* the loader is exhausted: the epoch ends
EpochEnd ==
    /\ pc = "fetch"
    /\ pending = <<>>
    /\ epoch' = epoch + 1
    /\ pc' = "epoch"
    /\ UNCHANGED <<train_examples, dev_examples, aug_examples, k, label_stoi,
                   pending, batch, labels, grads, target, net_training, grad_enabled,
                   fwd_mode, params, writes, num_correct, eval_log, accuracy, steps,
                   count>>
    /\ UNCHANGED augvars

\* line 145
Shift ==
    /\ pc = "shift"
    /\ labels' = shift(labels)
    /\ steps' = Append(steps, "shift")
    /\ pc' = "zero_grad"
    /\ UNCHANGED <<train_examples, dev_examples, aug_examples, k, label_stoi, epoch,
                   pending, batch, grads, target, net_training, grad_enabled, fwd_mode,
                   params, writes, num_correct, eval_log, accuracy, count>>
    /\ UNCHANGED augvars

\* line 149
ZeroGrad ==
    /\ pc = "zero_grad"
    /\ grads' = "zero"
    /\ Did("zero_grad")
    /\ pc' = "forward"
    /\ UNCHANGED <<train_examples, dev_examples, aug_examples, k, label_stoi, epoch,
                   pending, batch, labels, target, net_training, grad_enabled, fwd_mode,
                   params, writes, num_correct, eval_log, accuracy>>
    /\ UNCHANGED augvars

\* line 152: the dropout layers act when the module is in training mode
Forward ==
    /\ pc = "forward"
    /\ fwd_mode' = [grad |-> grad_enabled, dropout |-> net_training]
    /\ Did("forward")
    /\ pc' = "loss"
    /\ UNCHANGED <<train_examples, dev_examples, aug_examples, k, label_stoi, epoch,
                   pending, batch, labels, grads, target, net_training, grad_enabled,
                   params, writes, num_correct, eval_log, accuracy>>
    /\ UNCHANGED augvars

\* line 154
Loss ==
    /\ pc = "loss"
    /\ target' = labels
    /\ Did("loss")
    /\ pc' = "backward"
    /\ UNCHANGED <<train_examples, dev_examples, aug_examples, k, label_stoi, epoch,
                   pending, batch, labels, grads, net_training, grad_enabled, fwd_mode,
                   params, writes, num_correct, eval_log, accuracy>>
    /\ UNCHANGED augvars

\* line 157
Backward ==
    /\ pc = "backward"
    /\ grads' = "computed"
    /\ Did("backward")
    /\ pc' = "step"
    /\ UNCHANGED <<train_examples, dev_examples, aug_examples, k, label_stoi, epoch,
                   pending, batch, labels, target, net_training, grad_enabled, fwd_mode,
                   params, writes, num_correct, eval_log, accuracy>>
    /\ UNCHANGED augvars

\* lines 160-166: the update; the running loss is only printed and is left out
Step ==
    /\ pc = "step"
    /\ params' = params + 1
    /\ Did("step")
    /\ pc' = "fetch"
    /\ UNCHANGED <<train_examples, dev_examples, aug_examples, k, label_stoi, epoch,
                   pending, batch, labels, grads, target, net_training, grad_enabled,
                   fwd_mode, writes, num_correct, eval_log, accuracy>>
    /\ UNCHANGED augvars

\* line 168, after the last epoch
TrainingDone ==
    /\ pc = "epoch"
    /\ ~epoch_continues(epoch)
    /\ num_correct' = 0
    /\ pc' = "save"
    /\ UNCHANGED <<train_examples, dev_examples, aug_examples, k, label_stoi, epoch,
                   pending, batch, labels, grads, target, net_training, grad_enabled,
                   fwd_mode, params, writes, eval_log, accuracy, steps, count>>
    /\ UNCHANGED augvars

\* line 171
Save ==
    /\ pc = "save"
    /\ writes' = torch_save(writes, params)
    /\ pc' = "save_cpu"
    /\ UNCHANGED <<train_examples, dev_examples, aug_examples, k, label_stoi, epoch,
                   pending, batch, labels, grads, target, net_training, grad_enabled,
                   fwd_mode, params, num_correct, eval_log, accuracy, steps, count>>
    /\ UNCHANGED augvars

\* lines 173-177: a second network loads the file and is written over it
SaveCpu ==
    /\ pc = "save_cpu"
    /\ LET cpu_net == IF writes = <<>> THEN 0 ELSE writes[Len(writes)]
       IN  writes' = torch_save(writes, cpu_net)
    /\ pc' = "eval"
    /\ UNCHANGED <<train_examples, dev_examples, aug_examples, k, label_stoi, epoch,
                   pending, batch, labels, grads, target, net_training, grad_enabled,
                   fwd_mode, params, num_correct, eval_log, accuracy, steps, count>>
    /\ UNCHANGED augvars

---------------------------------------------------------------------------
(* main(): the evaluation loop *)

\* lines 181-182: torch.no_grad() is entered, the test loader starts its pass
EvalEnter ==
    /\ pc = "eval"
    /\ grad_enabled' = FALSE
    /\ pending' = Batches(Len(dev_examples))
    /\ pc' = "eval_fetch"
    /\ UNCHANGED <<train_examples, dev_examples, aug_examples, k, label_stoi, epoch,
                   batch, labels, grads, target, net_training, fwd_mode,
                   params, writes, num_correct, eval_log, accuracy, steps, count>>
    /\ UNCHANGED augvars

\* lines 182-185
EvalFetch ==
    /\ pc = "eval_fetch"
    /\ pending # <<>>
    /\ batch' = Head(pending)
    /\ pending' = Tail(pending)
    /\ labels' = batch_label(dev_examples, Head(pending))
    /\ steps' = <<>>
    /\ pc' = "eval_shift"
    /\ UNCHANGED <<train_examples, dev_examples, aug_examples, k, label_stoi, epoch,
                   grads, target, net_training, grad_enabled, fwd_mode,
                   params, writes, num_correct, eval_log, accuracy, count>>
    /\ UNCHANGED augvars

\* line 187
EvalShift ==
    /\ pc = "eval_shift"
    /\ labels' = shift(labels)
    /\ steps' = Append(steps, "shift")
    /\ pc' = "eval_predict"
    /\ UNCHANGED <<train_examples, dev_examples, aug_examples, k, label_stoi, epoch,
                   pending, batch, grads, target, net_training, grad_enabled, fwd_mode,
                   params, writes, num_correct, eval_log, accuracy, count>>
    /\ UNCHANGED augvars

\* lines 190-193
EvalPredict ==
    /\ pc = "eval_predict"
    /\ \E net_out \in [1..Len(batch) -> Logits] :
          LET outputs   == [i \in 1..Len(batch) |-> sigmoid(net_out[i])]
              predicted == [i \in 1..Len(batch) |-> round(outputs[i])]
          IN  /\ num_correct' = num_correct + sum_equal(labels, predicted)
              /\ eval_log' = eval_log \o
                    [i \in 1..Len(batch) |-> [example |-> batch[i], logit |-> net_out[i]]]
    /\ fwd_mode' = [grad |-> grad_enabled, dropout |-> net_training]
    /\ target' = labels
    /\ steps' = Append(steps, "predict")
    /\ pc' = "eval_fetch"
    /\ UNCHANGED <<train_examples, dev_examples, aug_examples, k, label_stoi, epoch,
                   pending, batch, labels, grads, net_training, grad_enabled,
                   params, writes, accuracy, count>>
    /\ UNCHANGED augvars

\* lines 195-197, after the loop and the end of the no_grad block
Finish ==
    /\ pc = "eval_fetch"
    /\ pending = <<>>
    /\ grad_enabled' = TRUE
    /\ accuracy' = [num |-> 100 * num_correct, den |-> Len(dev_examples)]
    /\ pc' = "done"
    /\ UNCHANGED <<train_examples, dev_examples, aug_examples, k, label_stoi, epoch,
                   pending, batch, labels, grads, target, net_training, fwd_mode,
                   params, writes, num_correct, eval_log, steps, count>>
    /\ UNCHANGED augvars

---------------------------------------------------------------------------
(* The augmentation functions applied to bounded inputs *)

\* the token sequences of length 1..n over Vocab
SeqsUpTo(n) == UNION {[1..m -> Vocab] : m \in 1..n}

\* sequences of one repeated token, of length 1..MaxLongLen
LongTexts == {[i \in 1..m |-> <<"a">>] : m \in 1..MaxLongLen}

\* probabilities in tenths: 0, 0.3 and 1
Probs == {0, 3, 10}

Idle == [fn |-> "idle", words |-> <<>>, prob |-> 0, n |-> 0, label |-> ""]

CallRandDel ==
    /\ call.fn = "idle"
    /\ \E words \in SeqsUpTo(MaxLen), prob \in Probs :
          /\ call' = [Idle EXCEPT !.fn = "rand_del", !.words = words, !.prob = prob]
          /\ ret' \in rand_del(words, prob)
    /\ UNCHANGED augmented
    /\ UNCHANGED mainvars

CallRandSwap ==
    /\ call.fn = "idle"
    /\ \E words \in SeqsUpTo(MaxLen), n \in 0..MaxN :
          /\ call' = [Idle EXCEPT !.fn = "rand_swap", !.words = words, !.n = n]
          /\ ret' \in rand_swap(words, n)
    /\ UNCHANGED augmented
    /\ UNCHANGED mainvars

CallAugSentence ==
    /\ call.fn = "idle"
    /\ \E text \in SeqsUpTo(MaxAugLen) \cup LongTexts, label \in Labels :
          /\ call' = [Idle EXCEPT !.fn = "aug_sentence", !.words = text,
                                  !.label = label, !.prob = DelProb,
                                  !.n = swap_count(Len(text))]
          /\ augmented' \in aug_sentence(text, label)
    /\ UNCHANGED ret
    /\ UNCHANGED mainvars

Return ==
    /\ call.fn # "idle"
    /\ call' = Idle
    /\ ret' = <<>>
    /\ augmented' = <<>>
    /\ UNCHANGED mainvars

---------------------------------------------------------------------------
(* Specifications *)

InitAugVars ==
    /\ call = Idle
    /\ ret = <<>>
    /\ augmented = <<>>

\* main() run on the splits of TrainSplits and DevSplits
Init == InitMain /\ InitAugVars

Next ==
    \/ ExtendDev \/ AugStep \/ AugExtend \/ Construct
    \/ EpochStart \/ Fetch \/ EpochEnd
    \/ Shift \/ ZeroGrad \/ Forward \/ Loss \/ Backward \/ Step
    \/ TrainingDone \/ Save \/ SaveCpu
    \/ EvalEnter \/ EvalFetch \/ EvalShift \/ EvalPredict \/ Finish

Spec == Init /\ [][Next]_vars

\* the augmentation functions on their own; main() has not started
InitAug ==
    /\ InitAugVars
    /\ InitMain
    /\ train_examples = <<Orig(<<<<"a">>, <<"b">>>>, "pos", "train")>>
    /\ dev_examples = [i \in 1..NumDev |-> Orig(<<<<"b">>>>, "pos", "dev")]

NextAug == CallRandDel \/ CallRandSwap \/ CallAugSentence \/ Return

SpecAug == InitAug /\ [][NextAug]_vars

---------------------------------------------------------------------------
(* Properties of the augmentation functions, under SpecAug *)

\* C1: whatever the draws and the probability, rand_del of a non-empty token
\* sequence returns a non-empty string whose tokens are tokens of `words`, at
\* least one of them; for a single token the result is that token unchanged.
C1_RandDelNeverEmpty ==
    call.fn = "rand_del" =>
        /\ ret # <<>>
        /\ Split(ret) # <<>>
        /\ Range(Split(ret)) \subseteq Range(call.words)
        /\ Len(call.words) = 1 => ret = call.words[1]

\* C1 witness: every token was dropped (probability 1) and one was put back
C1_Witness ==
    /\ call.fn = "rand_del"
    /\ Len(call.words) = 3
    /\ call.prob = 10
    /\ Len(Split(ret)) = 1

\* C2: whatever the draws and n >= 0, the tokens of rand_swap's result are a
\* permutation of `words`: the same multiset, the same number of tokens.
C2_RandSwapPermutation ==
    call.fn = "rand_swap" =>
        /\ Len(Split(ret)) = Len(call.words)
        /\ BagOf(Split(ret)) = BagOf(call.words)

\* C2 witness: two attempts on three tokens left them in another order
C2_Witness ==
    /\ call.fn = "rand_swap"
    /\ call.n = 2
    /\ Len(call.words) = 3
    /\ Split(ret) # call.words

\* C3: aug_sentence returns exactly 4 examples, 2 made by random deletion and 2
\* by random swap, each with the label of the input example.
C3_AugSentenceFour ==
    call.fn = "aug_sentence" =>
        /\ Len(augmented) = 4
        /\ \A i \in 1..Len(augmented) : augmented[i].label = call.label
        /\ Cardinality({i \in 1..Len(augmented) :
               /\ augmented[i].kind = "rd"
               /\ augmented[i].text # <<>>
               /\ Range(augmented[i].text) \subseteq Range(call.words)}) = 2
        /\ Cardinality({i \in 1..Len(augmented) :
               /\ augmented[i].kind = "rs"
               /\ BagOf(augmented[i].text) = BagOf(call.words)}) = 2

\* C3 witness: the two deletions of a two-token text came out differently
C3_Witness ==
    /\ call.fn = "aug_sentence"
    /\ Len(call.words) = 2
    /\ Len(augmented) = 4
    /\ augmented[1].text # augmented[3].text
    /\ augmented[2].text # augmented[4].text

\* Python's round() of a value in tenths: to the nearest integer, halves to even
RoundTenths(t) ==
    LET q == t \div 10
        r == t % 10
    IN  IF r < 5 THEN q
        ELSE IF r > 5 THEN q + 1
        ELSE IF q % 2 = 0 THEN q ELSE q + 1

\* C10 as stated: the number of swap attempts for a text of L tokens is
\* max(1, round(0.2 * L)).
C10_SwapCountRounded ==
    call.fn = "aug_sentence" =>
        call.n = Max(1, RoundTenths(2 * Len(call.words)))

\* C10 amended: the number of swap attempts for a text of L tokens is
\* max(1, floor(0.2 * L)): 1 below 5 tokens, and otherwise the n with
\* 5n <= L < 5n + 5.
C10_SwapCountTruncated ==
    call.fn = "aug_sentence" =>
        LET L == Len(call.words)
        IN  /\ L < 5 => call.n = 1
            /\ L >= 5 => 5 * call.n <= L /\ L < 5 * call.n + 5

\* C10 witness: 8 tokens get one attempt (0.2 * 8 = 1.6 rounds to 2)
C10_Witness ==
    /\ call.fn = "aug_sentence"
    /\ Len(call.words) = 8
    /\ call.n = 1

---------------------------------------------------------------------------
(* Properties of main(), under Spec *)

\* the examples of a list that aug_sentence built from an example of a split
Synthetic(examples, split) ==
    {i \in 1..Len(examples) : examples[i].kind # "orig" /\ examples[i].from = split}

\* the examples of a list that IMDB.splits gave for a split
Originals(examples, split) ==
    {i \in 1..Len(examples) : examples[i].kind = "orig" /\ examples[i].from = split}

\* the evaluation loop scored every example of dev once and nothing else
EvaluatedDevOnce ==
    /\ Len(eval_log) = Len(dev_examples)
    /\ {eval_log[i].example : i \in 1..Len(eval_log)} = 1..Len(dev_examples)

\* C4 as stated: no synthetic example is derived from an example of the dev
\* split, and the Evaluator iterates over exactly the original dev split.
C4_NoAugmentationOfDev ==
    /\ Synthetic(aug_examples, "dev") = {}
    /\ Synthetic(train_examples, "dev") = {}
    /\ \A i \in 1..Len(dev_examples) : dev_examples[i].kind = "orig"
    /\ pc = "done" => EvaluatedDevOnce

\* C4 amended: the dev examples are appended to train.examples before the
\* augmentation, which gives 4 synthetic examples for each of them as for each
\* base training example; the synthetic examples go to train.examples only,
\* dev.examples holds the original dev split throughout and the Evaluator
\* iterates over exactly that.
C4_AugmentationOfTrainWithDev ==
    /\ \A i \in 1..Len(dev_examples) :
          dev_examples[i].kind = "orig" /\ dev_examples[i].from = "dev"
    /\ Len(dev_examples) = NumDev
    /\ pc \notin {"extend", "augment"} =>
          /\ Cardinality(Originals(train_examples, "dev")) = Len(dev_examples)
          /\ \A s \in {"train", "dev"} :
                Cardinality(Synthetic(train_examples, s)) =
                    4 * Cardinality(Originals(train_examples, s))
    /\ pc = "done" => EvaluatedDevOnce

\* C4 witness: a run ended having trained on examples built from dev examples
C4_Witness ==
    /\ pc = "done"
    /\ Synthetic(train_examples, "dev") # {}
    /\ EvaluatedDevOnce

\* the statements of the training loop and before it
BeforeTrainingEnds ==
    {"extend", "augment", "build_vocab", "epoch", "fetch", "shift", "zero_grad",
     "forward", "loss", "backward", "step"}

\* the last batch of the last epoch has been applied
TrainingComplete ==
    /\ pc \notin BeforeTrainingEnds
    /\ epoch = NumEpochs
    /\ pending = <<>> \/ pc \in {"eval_fetch", "eval_shift", "eval_predict"}
    /\ count.step = params
    /\ params % NumEpochs = 0
    /\ LET n == params \div NumEpochs
       IN  (n - 1) * batch_size < Len(train_examples) /\ Len(train_examples) <= n * batch_size

\* C5 as stated: the checkpoint file is written exactly once in a run, after
\* the last batch of the last epoch, and never before training completes.
C5_WrittenOnce ==
    /\ writes # <<>> => TrainingComplete
    /\ pc = "done" => Len(writes) = 1

\* C5 amended: the checkpoint file is written exactly twice in a run (the
\* trained network's state, then the same state again from the copy loaded
\* back on the CPU), both times after the last batch of the last epoch; no
\* write happens before training completes.
C5_WrittenTwiceAfterTraining ==
    /\ writes # <<>> => TrainingComplete
    /\ pc \in BeforeTrainingEnds => writes = <<>>
    /\ pc \in {"eval", "eval_fetch", "eval_shift", "eval_predict", "done"} =>
          /\ Len(writes) = 2
          /\ writes[1] = params
          /\ writes[2] = params

\* C5 witness: a finished run with both writes made
C5_Witness ==
    /\ pc = "done"
    /\ Len(writes) = 2
    /\ params = NumEpochs * NumBatches(Len(train_examples))

\* C6: each forward pass of the evaluation loop runs with gradient tracking
\* off and with dropout not active, and evaluation changes no parameter.
C6_EvalInInferenceMode ==
    (pc \in {"eval_fetch", "done"} /\ eval_log # <<>>) =>
        /\ fwd_mode.grad = FALSE
        /\ fwd_mode.dropout = FALSE
        /\ params = writes[1]

\* round(sigmoid(x)) for a logit x: 1 above 0, and 0 at 0 (0.5 rounds to even)
Hard(x) == IF x > 0 THEN 1 ELSE 0

\* the scored examples whose hard prediction equals their label id minus 1
Matches ==
    {i \in 1..Len(eval_log) :
        Hard(eval_log[i].logit) = label_stoi[dev_examples[eval_log[i].example].label] - 1}

\* C7: num_correct counts exactly the scored examples whose rounded sigmoid
\* equals the shifted label; every dev example is scored once; the accuracy is
\* 100 * matches / total, between 0 and 100.
C7_AccuracyCountsMatches ==
    /\ num_correct = Cardinality(Matches)
    /\ 0 <= num_correct /\ num_correct <= Len(dev_examples)
    /\ \A i, j \in 1..Len(eval_log) :
          eval_log[i].example = eval_log[j].example => i = j
    /\ pc = "done" =>
          /\ EvaluatedDevOnce
          /\ accuracy.num = 100 * Cardinality(Matches)
          /\ accuracy.den = Len(dev_examples)
          /\ 0 <= accuracy.num /\ accuracy.num <= 100 * accuracy.den

\* C7 witness: a run that got some, not all, dev examples right, one of them
\* with a logit of 0
C7_Witness ==
    /\ pc = "done"
    /\ 0 < num_correct /\ num_correct < Len(dev_examples)
    /\ \E i \in Matches : eval_log[i].logit = 0
    /\ \E i \in 1..Len(eval_log) : i \notin Matches

\* how often a step occurs in the steps done on the current batch
Times(step) == Cardinality({i \in 1..Len(steps) : steps[i] = step})

\* the label ids of the current batch less one
RawLessOne(examples) ==
    [i \in 1..Len(batch) |-> label_stoi[examples[batch[i]].label] - 1]

\* C8: in every training batch the loss target, and in every evaluation batch
\* the ground truth of the comparison, is the raw label id minus 1, shifted
\* once per batch before use: ids 1, 2 become 0, 1.
C8_LabelShift ==
    /\ (pc \in {"backward", "step"} \/ (pc = "fetch" /\ steps # <<>>)) =>
          /\ target = RawLessOne(train_examples)
          /\ Times("shift") = 1
          /\ Range(target) \subseteq {0, 1}
    /\ (pc \in {"eval_fetch", "done"} /\ eval_log # <<>>) =>
          /\ target = RawLessOne(dev_examples)
          /\ Times("shift") = 1
          /\ Range(target) \subseteq {0, 1}

\* C8 witness: a loss was computed on a batch holding both labels
C8_Witness ==
    /\ pc = "backward"
    /\ Range(target) = {0, 1}
    /\ {label_stoi[train_examples[batch[i]].label] : i \in 1..Len(batch)} = {1, 2}

\* the order of the trainer's steps on one batch
TrainOrder == <<"shift", "zero_grad", "forward", "loss", "backward", "step">>

\* C9: on every batch of every one of the 10 epochs the steps run in the order
\* zero gradients, forward, loss, backward, update, each once; a batch's
\* update is done before the next batch's gradient reset; a run makes 10
\* times the number of training batches updates.
C9_TrainerOrder ==
    /\ pc \in {"shift", "zero_grad", "forward", "loss", "backward", "step"} =>
          /\ Len(steps) < Len(TrainOrder)
          /\ steps = SubSeq(TrainOrder, 1, Len(steps))
          /\ pc = TrainOrder[Len(steps) + 1]
    /\ pc \in {"shift", "zero_grad"} =>
          /\ count.zero_grad = count.step
          /\ grads \in {"none", "computed"}
    /\ (pc = "fetch" /\ steps # <<>>) => steps = TrainOrder
    /\ count.zero_grad >= count.forward /\ count.forward >= count.loss
    /\ count.loss >= count.backward /\ count.backward >= count.step
    /\ count.step >= count.zero_grad - 1
    /\ count.step = params
    /\ epoch <= NumEpochs
    /\ pc \notin BeforeTrainingEnds =>
          /\ count.zero_grad = count.step
          /\ count.step % NumEpochs = 0
          /\ LET n == count.step \div NumEpochs
             IN  /\ (n - 1) * batch_size < Len(train_examples)
                 /\ Len(train_examples) <= n * batch_size

\* C9 witness: training ended after 10 passes over more than one batch
C9_Witness ==
    /\ pc = "save"
    /\ epoch = 10
    /\ count.step = 10 * NumBatches(Len(train_examples))
    /\ NumBatches(Len(train_examples)) > 1

====
